---- MODULE Spec2Model ----
(***************************************************************************)
(* A model of the multiref crate: the wrappers Pair<A, B> (src/src/pair.rs)*)
(* and Slice<T> (src/src/slice.rs).                                        *)
(*                                                                         *)
(* Memory is a set of places.  Integer cells (the pointees a, b, c, d) live*)
(* at the addresses 1..NCells; places holding a pair of raw pointers live  *)
(* at TupBase+0.., and the array of raw pointers at ArrBase+0...  A        *)
(* pointer is a record [addr, len]: len is the metadata of a fat pointer   *)
(* (the element count of the DST it points to) and 0 for a thin pointer.   *)
(***************************************************************************)
EXTENDS Integers, Sequences, FiniteSets, TLC

\* ------------------------------------------------------------- bounds
\* The integer pointees of the doctests: a, b, c, d.
NCells == 4
\* Values written in free exploration are 0..MaxVal.
MaxVal == 2
\* A joined slice of free exploration is built from 0..MaxN references.
MaxN == 3

\* The pair places of a nesting of NCells elements, then the array.
TupBase == NCells + 1
NTups == NCells - 1
ArrBase == TupBase + NTups

Cells == 1..NCells
TupAddrs == TupBase..(TupBase + NTups - 1)

\* ------------------------------------------------------------ pointers
Thin(a) == [addr |-> a, len |-> 0]
Fat(a, n) == [addr |-> a, len |-> n]
Null == Thin(0)

\* -------------------------------------------------------------- memory
\* m.val: the integer cells; m.tup: the pair places; m.arr: the array place.
TupAt(m, a) == IF a \in TupAddrs THEN m.tup[a] ELSE <<Null, Null>>

\* the slot of the array place at address a (no view of the program reaches
\* past the array: see InBounds)
ArrAt(m, a) ==
    IF a - ArrBase + 1 \in 1..Len(m.arr) THEN m.arr[a - ArrBase + 1] ELSE Null

\* *ptr = v through a reference to an integer cell
WriteCell(m, ptr, v) ==
    IF ptr.addr \in Cells THEN [m EXCEPT !.val[ptr.addr] = v] ELSE m

\* the value behind a reference to an integer cell
ReadCell(m, ptr) == IF ptr.addr \in Cells THEN m.val[ptr.addr] ELSE -1

\* ------------------------------------------------- Pair<A, B>: pair.rs
\* From<&(&A,&B)> for &Pair: core::slice::from_raw_parts(pair, 1), then the
\* cast of the slice pointer to *const Pair, which keeps address and length.
PairFrom(pair) == Fat(pair.addr, 1)

\* A conversion that builds the slice with from_raw_parts_mut(pair, 0).
PairFromMutEmpty(pair) == Fat(pair.addr, 0)

\* From<&mut (&mut A,&mut B)> for &mut Pair: from_raw_parts_mut(pair, 1).
PairFromMut(pair) == Fat(pair.addr, 1)

\* Pair::new: pair_ref.into()
PairNew(pair_ref) == PairFrom(pair_ref)

\* Pair::new_mut: pair_ref.into()
PairNewMut(pair_ref) == PairFromMut(pair_ref)

\* self.pair_box[i]: the bounds-checked index into the [(*const A, *const B)]
\* behind self.  ok = FALSE is the index-out-of-bounds panic.
PairBoxIndex(m, self, i) ==
    IF i < self.len /\ (self.addr + i) \in TupAddrs
    THEN [ok |-> TRUE, rec |-> m.tup[self.addr + i]]
    ELSE [ok |-> FALSE, rec |-> <<Null, Null>>]

\* A fst that reads the second field of the record.
FstSecondField(m, self) ==
    LET e == PairBoxIndex(m, self, 0)
    IN  [ok |-> e.ok, ptr |-> e.rec[2]]

\* Pair::fst: &*self.pair_box[0].0
Fst(m, self) ==
    LET e == PairBoxIndex(m, self, 0)
    IN  [ok |-> e.ok, ptr |-> e.rec[1]]

\* Pair::snd: &*self.pair_box[0].1
Snd(m, self) ==
    LET e == PairBoxIndex(m, self, 0)
    IN  [ok |-> e.ok, ptr |-> e.rec[2]]

\* Pair::as_ref: &*(self as *const _ as *const _): the cast to a pointer to
\* the sized tuple drops the length and keeps the address.
AsRef(self) == Thin(self.addr)

\* A fst_mut that reads the second field of the record.
FstMutSecondField(m, self) ==
    LET e == PairBoxIndex(m, self, 0)
    IN  [ok |-> e.ok, ptr |-> e.rec[2]]

\* Pair::fst_mut: &mut *(self.pair_box[0].0 as *mut _)
FstMut(m, self) ==
    LET e == PairBoxIndex(m, self, 0)
    IN  [ok |-> e.ok, ptr |-> e.rec[1]]

\* A snd_mut that reads the first field of the record.
SndMutFirstField(m, self) ==
    LET e == PairBoxIndex(m, self, 0)
    IN  [ok |-> e.ok, ptr |-> e.rec[1]]

\* Pair::snd_mut: &mut *(self.pair_box[0].1 as *mut _)
SndMut(m, self) ==
    LET e == PairBoxIndex(m, self, 0)
    IN  [ok |-> e.ok, ptr |-> e.rec[2]]

\* Pair::as_mut: &mut *(self as *mut _ as *mut _)
AsMut(self) == Thin(self.addr)

\* A continuation handed to modify, as data: it selects slot `sel` of the
\* view, assigns (kind "set") or adds (kind "add") v through it or leaves it
\* (kind "none"), and returns the integer `ret` (out "int") or a reference
\* derived from the view (out "ref").
SetCont(sel, v, ret) ==
    [sel |-> sel, kind |-> "set", v |-> v, ret |-> ret, out |-> "int"]
AddCont(sel, v, ret) ==
    [sel |-> sel, kind |-> "add", v |-> v, ret |-> ret, out |-> "int"]
ProjCont(sel) ==
    [sel |-> sel, kind |-> "none", v |-> 0, ret |-> 0, out |-> "ref"]

\* The result of running code against a memory: the memory after it, how many
\* times a continuation was invoked, what was returned, and ok = FALSE when
\* it panicked.
Start(m) ==
    [mem |-> m, calls |-> 0, ret |-> 0, ptr |-> Null, arg |-> Null, ok |-> TRUE]

\* The new value a continuation stores through a reference to a cell.
Stored(m, slot, f) ==
    IF f.kind = "add" THEN ReadCell(m, slot) + f.v ELSE f.v

\* One invocation of the continuation f on the unified pair view: the
\* doctest's closures |a_pbc| { *a_pbc.0 = 6; }.
PairCall(st, view, f) ==
    LET slot == TupAt(st.mem, view.addr)[f.sel]
    IN  [mem   |-> IF f.kind = "none" THEN st.mem
                   ELSE WriteCell(st.mem, slot, Stored(st.mem, slot, f)),
         calls |-> st.calls + 1,
         ret   |-> f.ret,
         ptr   |-> IF f.out = "ref" THEN slot ELSE Null,
         arg   |-> view,
         ok    |-> st.ok]

\* A modify that runs the continuation a second time.
ModifyTwice(m, self, f) ==
    PairCall(PairCall(Start(m), AsMut(self), f), AsMut(self), f)

\* Pair::modify: f(self.as_mut())
Modify(m, self, f) == PairCall(Start(m), AsMut(self), f)

\* One step into a joined pair, in one of the three styles of the doctest:
\* "acc" (fst_mut / snd_mut), "asmut" (as_mut().0 / as_mut().1) or "modify"
\* (modify(|p| &mut *p.0)); which = 1 selects the first slot, 2 the second.
Styles == {"acc", "asmut", "modify"}

TakeSlot(m, self, style, which) ==
    CASE style = "acc" ->
            IF which = 1 THEN FstMut(m, self) ELSE SndMut(m, self)
      [] style = "asmut" ->
            [ok |-> TRUE, ptr |-> TupAt(m, AsMut(self).addr)[which]]
      [] OTHER ->
            LET r == Modify(m, self, ProjCont(which))
            IN  [ok |-> r.ok, ptr |-> r.ptr]

\* The write *path = v to element t (1..k) of the nesting
\* pair(e1, pair(e2, ... pair(e[k-1], ek))) behind self, which is the joined
\* pair of level lvl; styles[lvl] is the style used at each level.  As in
\* the doctest: *pabc.snd_mut().snd_mut() = 4; *pabc.as_mut().1.as_mut().0 = 5;
\* pabc.modify(|a_pbc| { *a_pbc.0 = 6; }).
RECURSIVE WriteVia(_, _, _, _, _, _, _)
WriteVia(m, self, styles, t, v, k, lvl) ==
    LET which == IF t = lvl THEN 1 ELSE 2
        last_step == (t = lvl) \/ (lvl = k - 1)
    IN  IF last_step
        THEN IF styles[lvl] = "modify"
             THEN LET r == Modify(m, self, SetCont(which, v, 0))
                  IN  [ok |-> r.ok, mem |-> r.mem]
             ELSE LET s == TakeSlot(m, self, styles[lvl], which)
                  IN  [ok |-> s.ok,
                       mem |-> IF s.ok THEN WriteCell(m, s.ptr, v) ELSE m]
        ELSE LET s == TakeSlot(m, self, styles[lvl], 2)
             IN  IF s.ok
                 THEN WriteVia(m, s.ptr, styles, t, v, k, lvl + 1)
                 ELSE [ok |-> FALSE, mem |-> m]

\* ---------------------------------------------------- Slice<T>: slice.rs
\* A conversion written like Pair's: from_raw_parts(slice.as_ptr(), 1).
SliceFromOne(slice) == Fat(slice.addr, 1)

\* From<&[&T]> for &Slice: &*(slice as *const _ as *const _), a cast between
\* two slice-shaped pointers: address and element count are kept.
SliceFrom(slice) == Fat(slice.addr, slice.len)

\* From<&mut [&mut T]> for &mut Slice
SliceFromMut(slice) == Fat(slice.addr, slice.len)

\* Slice::new: slice.into()
SliceNew(slice) == SliceFrom(slice)

\* Slice::new_mut: slice.into()
SliceNewMut(slice) == SliceFromMut(slice)

\* Slice::as_ref: &*(self as *const _ as *const _)
SliceAsRef(self) == Fat(self.addr, self.len)

\* An as_mut written like Pair's, for a place of one element.
SliceAsMutOne(self) == Fat(self.addr, 1)

\* Slice::as_mut: &mut *(self as *mut _ as *mut _)
SliceAsMut(self) == Fat(self.addr, self.len)

\* view[i] on the unified view, an ordinary bounds-checked slice index (as in
\* the doctest's slice.as_mut()[0]).  ok = FALSE is the out-of-bounds panic.
ViewIndex(m, view, i) ==
    IF 0 <= i /\ i < view.len
    THEN [ok |-> TRUE, ptr |-> ArrAt(m, view.addr + i)]
    ELSE [ok |-> FALSE, ptr |-> Null]

\* &mut view[lo..hi], the doctest's re-slicing of the unified view.
ViewRange(view, lo, hi) ==
    IF 0 <= lo /\ lo <= hi /\ hi <= view.len
    THEN [ok |-> TRUE, ptr |-> Fat(view.addr + lo, hi - lo)]
    ELSE [ok |-> FALSE, ptr |-> Null]

\* One invocation of the continuation f on the unified slice view: the
\* doctest's closures |real_slice| { *real_slice[2] = 6; 42 } and
\* |real_slice| { *real_slice[3] += 1; Slice::new_mut(real_slice) }.
SliceCall(st, view, f) ==
    LET e == ViewIndex(st.mem, view, f.sel)
    IN  IF ~e.ok
        THEN [st EXCEPT !.calls = @ + 1, !.arg = view, !.ok = FALSE]
        ELSE [mem   |-> IF f.kind = "none" THEN st.mem
                        ELSE WriteCell(st.mem, e.ptr, Stored(st.mem, e.ptr, f)),
              calls |-> st.calls + 1,
              ret   |-> f.ret,
              ptr   |-> IF f.out = "ref" THEN SliceNewMut(view) ELSE Null,
              arg   |-> view,
              ok    |-> st.ok]

\* Slice::modify: f(self.as_mut())
SliceModify(m, self, f) == SliceCall(Start(m), SliceAsMut(self), f)

\* ===================================================== the programs
\* A run is one program using one joined entity.  shape says which:
\*   "pair"      a nesting of k = Len(elems) integers joined by Pair::new_mut,
\*   "slice"     an array of Len(elems) references joined by Slice::new_mut,
\*   "docpair"   the doctest of Pair (pair.rs), "docslice" that of Slice.
\* elems is the aggregate as the program wrote it: elems[i] is the cell its
\* i-th reference was taken from.  root is the joined reference.  mem is the
\* memory; memD is the memory of the same program with every access made
\* through as_mut() directly.  last describes the operation just performed,
\* halted is set by a panic, pc counts the steps of a doctest.
VARIABLES shape, elems, root, mem, memD, last, halted, pc

\* The borrows of a program (see "the borrows" below): the block the program
\* is in, the cells the two aggregates refer to, and the references alive.
VARIABLES scope, held, joined, kids, derefs, loan

pvars == <<shape, elems, root, mem, memD, last, halted, pc>>
bvars == <<scope, held, joined, kids, derefs, loan>>
vars == <<pvars, bvars>>

Aggs == {"ab", "cd"}
Objs == {"a", "b", "c", "d", "e"}

\* let mut ab = (&mut a, &mut b); ... let mut cd = (&mut c, &mut d);
InitBorrows ==
    /\ scope = "outer"
    /\ held = [g \in Aggs |-> IF g = "ab" THEN <<"a", "b">> ELSE <<"c", "d">>]
    /\ joined = [g \in Aggs |-> FALSE]
    /\ kids = [g \in Aggs |-> {}]
    /\ derefs = [g \in Aggs |-> {}]
    /\ loan = [o \in Objs |-> IF o = "e" THEN "none" ELSE "elem"]

Note(op, i, v, r) ==
    [op |-> op, i |-> i, v |-> v, ret |-> r.ret, calls |-> r.calls,
     ptr |-> r.ptr, arg |-> r.arg, ok |-> r.ok, p0 |-> Null, p1 |-> Null,
     sel |-> 0, kind |-> "", want |-> 0]

\* What the continuations of free exploration return.
Rets == {0, 42}

\* The aggregates of k references to distinct cells that a run starts from:
\* the first k cells in ascending order, or the last k in descending order.
Layouts(k) ==
    {[i \in 1..k |-> i], [i \in 1..k |-> NCells + 1 - i]}

\* let mut bc = (&mut b, &mut c);
\* let mut a_pbc = (&mut a, Pair::new_mut(&mut bc));   (and deeper alike)
NestTup(e) ==
    LET k == Len(e)
    IN  [a \in TupAddrs |->
            LET lvl == a - TupBase + 1
            IN  IF lvl > k - 1 THEN <<Null, Null>>
                ELSE <<Thin(e[lvl]),
                       IF lvl = k - 1 THEN Thin(e[k])
                       ELSE PairNewMut(Thin(a + 1))>>]

NoTup == [a \in TupAddrs |-> <<Null, Null>>]

\* let mut array = [&mut a, &mut b, &mut c, &mut d];
ArrOf(e) == [i \in 1..Len(e) |-> Thin(e[i])]

ZeroVal == [c \in Cells |-> 0]

InitPair ==
    /\ shape = "pair"
    /\ \E k \in 2..NCells : elems \in Layouts(k)
    /\ mem = [val |-> ZeroVal, tup |-> NestTup(elems), arr |-> <<>>]
    /\ root = PairNewMut(Thin(TupBase))

InitSlice ==
    /\ shape = "slice"
    /\ \E n \in 0..MaxN : elems \in Layouts(n)
    /\ mem = [val |-> ZeroVal, tup |-> NoTup, arr |-> ArrOf(elems)]
    /\ root = SliceNewMut(Fat(ArrBase, Len(elems)))

\* The doctest of Pair: let (mut a, mut b, mut c) = (1, 2, 3); ...
InitDocPair ==
    /\ shape = "docpair"
    /\ elems = <<1, 2, 3>>
    /\ mem = [val |-> [c \in Cells |-> IF c <= 3 THEN c ELSE 0],
              tup |-> NestTup(elems), arr |-> <<>>]
    /\ root = PairNewMut(Thin(TupBase))

\* The doctest of Slice: let (mut a, mut b, mut c, mut d) = (1, 2, 3, 4); ...
InitDocSlice ==
    /\ shape = "docslice"
    /\ elems = <<1, 2, 3, 4>>
    /\ mem = [val |-> [c \in Cells |-> c], tup |-> NoTup, arr |-> ArrOf(elems)]
    /\ root = SliceNewMut(Fat(ArrBase, Len(elems)))

Init ==
    /\ InitPair \/ InitSlice \/ InitDocPair \/ InitDocSlice
    /\ memD = mem
    /\ last = Note("init", 0, 0, Start(mem))
    /\ halted = FALSE
    /\ pc = 0
    /\ InitBorrows

Arity == Len(elems)

\* The joined pair of level lvl: the root, or the &mut Pair stored in the
\* second slot one level up.
JoinedAt(m, lvl) ==
    IF lvl = 1 THEN root ELSE TupAt(m, TupBase + lvl - 2)[2]

AllAsMut == [l \in 1..NTups |-> "asmut"]

\* The style used at each level of a path: one style at the odd levels and
\* one (the same or another) at the even levels.
StylePaths ==
    {[l \in 1..NTups |-> IF l % 2 = 1 THEN s1 ELSE s2] :
        s1 \in Styles, s2 \in Styles}

\* A write to element t of the nesting, by any mix of the three styles.
PairWrite ==
    /\ shape = "pair" /\ ~halted
    /\ \E t \in 1..Arity, v \in 0..MaxVal, st \in StylePaths :
         LET r == WriteVia(mem, root, st, t, v, Arity, 1)
             d == WriteVia(memD, root, AllAsMut, t, v, Arity, 1)
         IN  /\ mem' = r.mem
             /\ memD' = d.mem
             /\ halted' = ~r.ok
             /\ last' = Note("write", t, v, [Start(mem) EXCEPT !.ok = r.ok])
    /\ UNCHANGED <<shape, elems, root, pc>>
    /\ UNCHANGED bvars

\* Pair::new(&x) / Pair::new_mut(&mut x) of the aggregate x of level lvl,
\* then fst, snd and as_ref (fst_mut, snd_mut and as_mut) of the result.
PairRead ==
    /\ shape = "pair" /\ ~halted
    /\ \E lvl \in 1..(Arity - 1), mutable \in BOOLEAN :
         LET x == Thin(TupBase + lvl - 1)
             j == IF mutable THEN PairNewMut(x) ELSE PairNew(x)
             f == IF mutable THEN FstMut(mem, j) ELSE Fst(mem, j)
             s == IF mutable THEN SndMut(mem, j) ELSE Snd(mem, j)
             w == IF mutable THEN AsMut(j) ELSE AsRef(j)
         IN  /\ last' = [Note(IF mutable THEN "read_mut" ELSE "read",
                               lvl, 0, Start(mem))
                            EXCEPT !.ptr = w, !.p0 = f.ptr, !.p1 = s.ptr,
                                   !.arg = j, !.ok = f.ok /\ s.ok]
             /\ halted' = ~(f.ok /\ s.ok)
    /\ UNCHANGED <<shape, elems, root, mem, memD, pc>>
    /\ UNCHANGED bvars

\* j.modify(f) on the joined pair of level lvl, f writing an integer slot.
PairModify ==
    /\ shape = "pair" /\ ~halted
    /\ \E lvl \in 1..(Arity - 1), sel \in 1..2, add \in BOOLEAN,
          v \in 0..MaxVal, ret \in Rets :
         LET j == JoinedAt(mem, lvl)
             f == IF add THEN AddCont(sel, v, ret) ELSE SetCont(sel, v, ret)
             r == Modify(mem, j, f)
             slot == TupAt(memD, AsMut(j).addr)[sel]
         IN  /\ sel = 2 => lvl = Arity - 1
             /\ add => v > 0 /\ \A c \in Cells : mem.val[c] + v <= MaxVal
             /\ mem' = r.mem
             /\ memD' = WriteCell(memD, slot, Stored(memD, slot, f))
             /\ halted' = ~r.ok
             /\ last' = [Note("modify", lvl, v, r) EXCEPT
                            !.sel = sel, !.kind = f.kind, !.want = ret]
    /\ UNCHANGED <<shape, elems, root, pc>>
    /\ UNCHANGED bvars

SwapAt(e, i) == [e EXCEPT ![i] = e[i + 1], ![i + 1] = e[i]]

\* core::mem::swap(&mut v.0, &mut v.1) on the view v = j.as_mut() of the
\* innermost pair, whose two slots have the same type.
PairSwapSlots ==
    /\ shape = "pair" /\ ~halted
    /\ LET w == AsMut(JoinedAt(mem, Arity - 1))
       IN  /\ mem' = [mem EXCEPT !.tup[w.addr] = <<@[2], @[1]>>]
           /\ memD' = [memD EXCEPT !.tup[w.addr] = <<@[2], @[1]>>]
    /\ elems' = SwapAt(elems, Arity - 1)
    /\ last' = Note("swap", Arity - 1, 0, Start(mem))
    /\ UNCHANGED <<shape, root, halted, pc>>
    /\ UNCHANGED bvars

\* Pair::new_mut(root.as_mut()): the joined reference wrapped again.
PairRewrap ==
    /\ shape = "pair" /\ ~halted
    /\ root' = PairNewMut(AsMut(root))
    /\ last' = [Note("rewrap", 1, 0, Start(mem)) EXCEPT !.arg = root']
    /\ UNCHANGED <<shape, elems, mem, memD, halted, pc>>
    /\ UNCHANGED bvars

NextPair == PairWrite \/ PairRead \/ PairModify \/ PairSwapSlots \/ PairRewrap

\* Slice::new(&array[..]) / Slice::new_mut(&mut array[..]), then as_ref
\* (as_mut) of the result.
SliceRead ==
    /\ shape = "slice" /\ ~halted
    /\ \E mutable \in BOOLEAN :
         LET x == Fat(ArrBase, Len(elems))
             j == IF mutable THEN SliceNewMut(x) ELSE SliceNew(x)
             w == IF mutable THEN SliceAsMut(j) ELSE SliceAsRef(j)
         IN  last' = [Note(IF mutable THEN "slice_read_mut" ELSE "slice_read",
                           0, 0, Start(mem))
                        EXCEPT !.ptr = w, !.arg = j]
    /\ UNCHANGED <<shape, elems, root, mem, memD, halted, pc>>
    /\ UNCHANGED bvars

\* The write through an element of a view, or the panic of the index.
ViewWrite(m, e, v) == IF e.ok THEN WriteCell(m, e.ptr, v) ELSE m

\* *slice.as_mut()[i] = v, for any index i, in range or not.
SliceWrite ==
    /\ shape = "slice" /\ ~halted
    /\ \E i \in 0..MaxN, v \in 0..MaxVal :
         LET e == ViewIndex(mem, SliceAsMut(root), i)
         IN  /\ mem' = ViewWrite(mem, e, v)
             /\ memD' = ViewWrite(memD, e, v)
             /\ halted' = ~e.ok
             /\ last' = Note("slice_write", i, v, [Start(mem) EXCEPT !.ok = e.ok])
    /\ UNCHANGED <<shape, elems, root, pc>>
    /\ UNCHANGED bvars

\* *((&mut slice.as_mut()[lo..hi])[j]) = v, for any range and index.
RangeIndex(m, w, lo, hi, j) ==
    LET r == ViewRange(w, lo, hi)
    IN  IF r.ok THEN ViewIndex(m, r.ptr, j) ELSE [ok |-> FALSE, ptr |-> Null]

SliceRangeWrite ==
    /\ shape = "slice" /\ ~halted
    /\ \E lo \in 0..MaxN, hi \in 0..MaxN, j \in 0..(MaxN - 1), v \in 0..MaxVal :
         LET e == RangeIndex(mem, SliceAsMut(root), lo, hi, j)
         IN  /\ mem' = ViewWrite(mem, e, v)
             /\ memD' = ViewWrite(memD, e, v)
             /\ halted' = ~e.ok
             /\ last' = Note("slice_range", lo + j, v,
                             [Start(mem) EXCEPT !.ok = e.ok])
    /\ UNCHANGED <<shape, elems, root, pc>>
    /\ UNCHANGED bvars

\* slice.modify(f), f writing through one element of the view.
SliceModifyOp ==
    /\ shape = "slice" /\ ~halted
    /\ \E sel \in 0..MaxN, add \in BOOLEAN, v \in 0..MaxVal, ret \in Rets :
         LET f == IF add THEN AddCont(sel, v, ret) ELSE SetCont(sel, v, ret)
             r == SliceModify(mem, root, f)
             e == ViewIndex(memD, SliceAsMut(root), sel)
         IN  /\ add => v > 0 /\ \A c \in Cells : mem.val[c] + v <= MaxVal
             /\ mem' = r.mem
             /\ memD' = ViewWrite(memD, e, Stored(memD, e.ptr, f))
             /\ halted' = ~r.ok
             /\ last' = [Note("slice_modify", sel, v, r) EXCEPT
                            !.sel = sel, !.kind = f.kind, !.want = ret]
    /\ UNCHANGED <<shape, elems, root, pc>>
    /\ UNCHANGED bvars

\* slice.modify(|s| { *s[i1] += v1; Slice::new_mut(s) })
\*      .modify(|s| { *s[i2] += v2; });
Chain(m, self, i1, v1, i2, v2) ==
    LET r1 == SliceModify(m, self, [AddCont(i1, v1, 0) EXCEPT !.out = "ref"])
    IN  IF r1.ok THEN SliceModify(r1.mem, r1.ptr, AddCont(i2, v2, 0)) ELSE r1

SliceChain ==
    /\ shape = "slice" /\ ~halted
    /\ \E i1 \in 0..MaxN, i2 \in 0..MaxN, v1 \in 1..MaxVal, v2 \in 1..MaxVal :
         LET r == Chain(mem, root, i1, v1, i2, v2)
             d == Chain(memD, root, i1, v1, i2, v2)
         IN  /\ \A c \in Cells : mem.val[c] + v1 + v2 <= MaxVal
             /\ mem' = r.mem
             /\ memD' = d.mem
             /\ halted' = ~r.ok
             /\ last' = [Note("slice_chain", i1, v1, r) EXCEPT
                            !.sel = i2, !.want = v2, !.ptr = Null, !.arg = Null]
    /\ UNCHANGED <<shape, elems, root, pc>>
    /\ UNCHANGED bvars

\* real_slice.swap(i - 1, i) on the view slice.as_mut(): the slots i and
\* i + 1 (counted from 1) of the aggregate exchange their references.
SliceSwapSlots ==
    /\ shape = "slice" /\ ~halted
    /\ \E i \in 1..(Len(elems) - 1) :
         LET at == SliceAsMut(root).addr - ArrBase + i
         IN  /\ mem' = [mem EXCEPT !.arr = SwapAt(@, at)]
             /\ memD' = [memD EXCEPT !.arr = SwapAt(@, at)]
             /\ elems' = SwapAt(elems, i)
             /\ last' = Note("slice_swap", i, 0, Start(mem))
    /\ UNCHANGED <<shape, root, halted, pc>>
    /\ UNCHANGED bvars

\* Slice::new_mut(slice.as_mut()): the joined reference wrapped again.
SliceRewrap ==
    /\ shape = "slice" /\ ~halted
    /\ root' = SliceNewMut(SliceAsMut(root))
    /\ last' = [Note("slice_rewrap", 0, 0, Start(mem)) EXCEPT !.arg = root']
    /\ UNCHANGED <<shape, elems, mem, memD, halted, pc>>
    /\ UNCHANGED bvars

NextSlice ==
    \/ SliceRead \/ SliceWrite \/ SliceRangeWrite \/ SliceModifyOp
    \/ SliceChain \/ SliceSwapSlots \/ SliceRewrap

Uniform(style) == [l \in 1..NTups |-> style]

\* The statements of the doctest of Pair, one per step:
\*   *pabc.snd_mut().snd_mut() = 4;
\*   *pabc.as_mut().1.as_mut().0 = 5;
\*   pabc.modify(|a_pbc| { *a_pbc.0 = 6; });
DocPairRun(m, n) ==
    CASE n = 0 -> WriteVia(m, root, Uniform("acc"), 3, 4, 3, 1)
      [] n = 1 -> WriteVia(m, root, Uniform("asmut"), 2, 5, 3, 1)
      [] OTHER -> WriteVia(m, root, Uniform("modify"), 1, 6, 3, 1)

DocPairStep ==
    /\ shape = "docpair" /\ ~halted /\ pc < 3
    /\ LET r == DocPairRun(mem, pc)
       IN  /\ mem' = r.mem
           /\ memD' = DocPairRun(memD, pc).mem
           /\ halted' = ~r.ok
           /\ last' = Note("doc", pc, 0, [Start(mem) EXCEPT !.ok = r.ok])
    /\ pc' = pc + 1
    /\ UNCHANGED <<shape, elems, root>>
    /\ UNCHANGED bvars

\* The statements of the doctest of Slice, one per step:
\*   *slice.as_mut()[0] = 4;
\*   *((&mut slice.as_mut()[1..3])[0]) = 5;
\*   let forty_two = slice.modify(|real_slice| { *real_slice[2] = 6; 42 });
\*   slice.modify(|real_slice| { *real_slice[3] += 1; Slice::new_mut(real_slice) })
\*        .modify(|real_slice| { *real_slice[3] += 2; });
DocSliceRun(m, n) ==
    CASE n = 0 ->
            LET e == ViewIndex(m, SliceAsMut(root), 0)
            IN  [Start(ViewWrite(m, e, 4)) EXCEPT !.ok = e.ok]
      [] n = 1 ->
            LET e == RangeIndex(m, SliceAsMut(root), 1, 3, 0)
            IN  [Start(ViewWrite(m, e, 5)) EXCEPT !.ok = e.ok]
      [] n = 2 -> SliceModify(m, root, SetCont(2, 6, 42))
      [] OTHER -> Chain(m, root, 3, 1, 3, 2)

DocSliceStep ==
    /\ shape = "docslice" /\ ~halted /\ pc < 4
    /\ LET r == DocSliceRun(mem, pc)
       IN  /\ mem' = r.mem
           /\ memD' = DocSliceRun(memD, pc).mem
           /\ halted' = ~r.ok
           /\ last' = [Note("doc", pc, 0, r) EXCEPT !.ptr = Null, !.arg = Null]
    /\ pc' = pc + 1
    /\ UNCHANGED <<shape, elems, root>>
    /\ UNCHANGED bvars

Next == NextPair \/ NextSlice \/ DocPairStep \/ DocSliceStep

Spec == Init /\ [][Next]_vars

\* ======================================================= the borrows
\* A client program in safe Rust, as the borrow checker accepts it from the
\* signatures of pair.rs.  It is the program of the "Drawbacks" example:
\* a, b and ab = (&mut a, &mut b) live in the outer block; c, d, a further
\* local e and cd = (&mut c, &mut d) live in an inner block.
\*   held[g]    the cells the two slots of aggregate g point to
\*   joined[g]  a &mut Pair made by Pair::new_mut(&mut g) is alive
\*   kids[g]    the borrows of that joined reference that are alive, each
\*              named by the method that returned it
\*   derefs[g]  the slots i reborrowed as &mut *v.i through a unified view v
\*   loan[o]    what the borrow checker holds cell o to be borrowed for:
\*              "none", "elem" (the lifetime 'x of an aggregate's elements)
\*              or g (the lifetime 'a of the unified view of aggregate g)
ObjBlock(o) == IF o \in {"a", "b"} THEN "outer" ELSE "inner"
AggBlock(g) == IF g = "ab" THEN "outer" ELSE "inner"

Alive(o) == ObjBlock(o) = "outer" \/ scope = "inner"
Usable(g) == AggBlock(g) = "outer" \/ scope = "inner"

\* Cell o lives as long as the elements of aggregate g must ('x).
LivesFor(o, g) == ~(ObjBlock(o) = "inner" /\ AggBlock(g) = "outer")

SharedKinds == {"fst", "snd", "as_ref"}
MutKinds == {"fst_mut", "snd_mut", "as_mut", "modify"}
UnifiedKinds == {"as_mut", "modify"}

\* The receiver of each method: fst, snd, as_ref take &'a self; fst_mut,
\* snd_mut, as_mut, modify take &'a mut self.
Receiver(kind) == IF kind \in SharedKinds THEN "shared" ELSE "mut"

\* The lifetime in the slot type of the unified mutable view: as_mut and
\* modify give &'a mut (&'a mut A, &'a mut B), so a slot takes any reference
\* that lives for the view's borrow 'a ("view"), not only one that lives for
\* the elements' lifetime 'x ("elem").
SlotLife == "view"

\* Pair<A, B> is a struct whose only field is a slice: it has no static
\* size, so no T = Pair<A, B> satisfies the T: Sized bound of mem::swap.
PairSized == FALSE

\* The inner block of the example opens and closes.
EnterBlock ==
    /\ scope = "outer"
    /\ scope' = "inner"
    /\ UNCHANGED <<held, joined, kids, derefs, loan>>
    /\ UNCHANGED pvars

\* At the closing brace nothing that borrows from the block is alive.
ExitBlock ==
    /\ scope = "inner"
    /\ \A g \in Aggs : kids[g] = {} /\ derefs[g] = {}
    /\ ~joined["cd"]
    /\ scope' = "after"
    /\ UNCHANGED <<held, joined, kids, derefs, loan>>
    /\ UNCHANGED pvars

\* let p = Pair::new_mut(&mut g);
NewMut ==
    /\ \E g \in Aggs :
         /\ Usable(g) /\ ~joined[g]
         /\ joined' = [joined EXCEPT ![g] = TRUE]
    /\ UNCHANGED <<scope, held, kids, derefs, loan>>
    /\ UNCHANGED pvars

\* the last use of p
Release ==
    /\ \E g \in Aggs :
         /\ joined[g] /\ kids[g] = {}
         /\ joined' = [joined EXCEPT ![g] = FALSE]
    /\ UNCHANGED <<scope, held, kids, derefs, loan>>
    /\ UNCHANGED pvars

\* let r = p.kind(): a shared receiver coexists with shared borrows only, a
\* mutable receiver with none.
Borrow ==
    /\ \E g \in Aggs, kind \in SharedKinds \cup MutKinds :
         /\ joined[g] /\ Usable(g) /\ kind \notin kids[g]
         /\ Receiver(kind) = "mut" => kids[g] = {}
         /\ Receiver(kind) = "shared" => kids[g] \cap MutKinds = {}
         /\ kids' = [kids EXCEPT ![g] = @ \cup {kind}]
    /\ UNCHANGED <<scope, held, joined, derefs, loan>>
    /\ UNCHANGED pvars

\* the last use of r (for modify: the continuation returns); with a unified
\* view end its reborrows and the loans made for its lifetime.
EndBorrow ==
    /\ \E g \in Aggs, kind \in SharedKinds \cup MutKinds :
         /\ kind \in kids[g]
         /\ kids' = [kids EXCEPT ![g] = @ \ {kind}]
         /\ derefs' = IF kind \in UnifiedKinds
                      THEN [derefs EXCEPT ![g] = {}] ELSE derefs
         /\ loan' = IF kind \in UnifiedKinds
                    THEN [o \in Objs |-> IF loan[o] = g THEN "none" ELSE loan[o]]
                    ELSE loan
    /\ UNCHANGED <<scope, held, joined>>
    /\ UNCHANGED pvars

\* let x = &mut *v.0; (or v.1) through the unified view v of g
Reborrow ==
    /\ \E g \in Aggs, i \in 1..2 :
         /\ kids[g] \cap UnifiedKinds # {} /\ i \notin derefs[g]
         /\ derefs' = [derefs EXCEPT ![g] = @ \cup {i}]
    /\ UNCHANGED <<scope, held, joined, kids, loan>>
    /\ UNCHANGED pvars

\* v.0 = &mut o; (or v.1) through the unified view v of g: o must be
\* unborrowed and live for the lifetime of the slot type.
Assign ==
    /\ \E g \in Aggs, i \in 1..2, o \in Objs :
         /\ kids[g] \cap UnifiedKinds # {} /\ i \notin derefs[g]
         /\ Alive(o) /\ loan[o] = "none"
         /\ SlotLife = "elem" => LivesFor(o, g)
         /\ held' = [held EXCEPT ![g][i] = o]
         /\ loan' = [loan EXCEPT ![o] = IF SlotLife = "view" THEN g ELSE "elem"]
    /\ UNCHANGED <<scope, joined, kids, derefs>>
    /\ UNCHANGED pvars

\* std::mem::swap(pab, pcd) on the joined references themselves (whole), or
\* std::mem::swap(pab.as_mut(), pcd.as_mut()) on their unified views: T must
\* be Sized and the same type on both sides.
Swap ==
    /\ \E whole \in BOOLEAN :
         /\ whole => /\ PairSized
                      /\ \A g \in Aggs : joined[g] /\ kids[g] = {}
         /\ ~whole => /\ \A g \in Aggs :
                            kids[g] \cap UnifiedKinds # {} /\ derefs[g] = {}
                       /\ SlotLife = "view"
         /\ held' = [g \in Aggs |-> IF g = "ab" THEN held["cd"] ELSE held["ab"]]
    /\ UNCHANGED <<scope, joined, kids, derefs, loan>>
    /\ UNCHANGED pvars

NextBorrows ==
    \/ EnterBlock \/ ExitBlock \/ NewMut \/ Release
    \/ Borrow \/ EndBorrow \/ Reborrow \/ Assign \/ Swap

InitIdle ==
    /\ shape = "borrows" /\ elems = <<>> /\ root = Null
    /\ mem = [val |-> ZeroVal, tup |-> NoTup, arr |-> <<>>]
    /\ memD = mem
    /\ last = Note("init", 0, 0, Start(mem))
    /\ halted = FALSE /\ pc = 0

InitB == InitIdle /\ InitBorrows

SpecBorrows == InitB /\ [][NextBorrows]_vars

\* =========================================================== claims
PairShape == shape \in {"pair", "docpair"}
SliceShape == shape \in {"slice", "docslice"}

\* The aggregate of level lvl as the program wrote it: a reference to its
\* lvl-th element and, unless it is the innermost, the joined inner pair.
Written(lvl) ==
    <<Thin(elems[lvl]),
      IF lvl = Arity - 1 THEN Thin(elems[Arity]) ELSE Fat(TupBase + lvl, 1)>>

\* Every reference the program holds stays inside the place it was made
\* from: the helpers TupAt, ArrAt, WriteCell and ReadCell never take their
\* out-of-range branch.
InBounds ==
    /\ SliceShape =>
          /\ root.addr = ArrBase /\ root.len = Len(mem.arr)
          /\ \A i \in 1..Len(mem.arr) : mem.arr[i].addr \in Cells
    /\ PairShape =>
          /\ root.addr = TupBase
          /\ \A lvl \in 1..(Arity - 1) :
                /\ JoinedAt(mem, lvl).addr = TupBase + lvl - 1
                /\ TupAt(mem, TupBase + lvl - 1)[1].addr \in Cells
          /\ TupAt(mem, TupBase + Arity - 2)[2].addr \in Cells

\* C1: Pair round trip.  For the aggregate x of any level, Pair::new(&x)
\* .as_ref() (Pair::new_mut(&mut x).as_mut()) is the place of x itself and
\* holds the two addresses of x in their order; fst (fst_mut) is the
\* reference x.0 and snd (snd_mut) the reference x.1.
C1_PairRoundTrip ==
    last.op \in {"read", "read_mut"} =>
        /\ last.ok
        /\ last.ptr = Thin(TupBase + last.i - 1)
        /\ TupAt(mem, last.ptr.addr) = Written(last.i)
        /\ last.p0 = Written(last.i)[1]
        /\ last.p1 = Written(last.i)[2]

\* C1 witness: an innermost pair whose slots were exchanged, so that x.0 lies
\* at the higher address, has been read through the immutable accessors.
C1_Witness ==
    /\ last.op = "read" /\ last.i = Arity - 1 /\ Arity = 3
    /\ elems = <<1, 3, 2>>
    /\ last.p0 = Thin(3) /\ last.p1 = Thin(2)

\* C2: independence of mutation paths.  The same writes made through
\* fst_mut / snd_mut / modify (mem) and through as_mut().0 / as_mut().1 (memD)
\* leave the pointees and the aggregates in the same state.
C2_MutationPathsAgree == PairShape => mem = memD

\* C2 witness: after several writes to a pair, three cells differ from their
\* initial value.
C2_Witness ==
    /\ shape = "pair" /\ last.op = "write" /\ Arity = 4
    /\ mem.val[elems[1]] = 1 /\ mem.val[elems[3]] = 2 /\ mem.val[elems[4]] = 1

\* C3: nested pairs emulate wider tuples.  A write of v to element t of a
\* 2-, 3- or 4-way nesting, through any of snd_mut().snd_mut(),
\* as_mut().1.as_mut().0 or modify, succeeds and changes exactly the t-th
\* element; and the doctest ends with a = 6, b = 5, c = 4.
C3_WriteStep ==
    (shape = "pair" /\ last'.op = "write") =>
        /\ last'.ok
        /\ mem'.val = [mem.val EXCEPT ![elems[last'.i]] = last'.v]
        /\ mem'.tup = mem.tup

C3_DocResult ==
    (shape = "docpair" /\ (pc = 3 \/ halted)) =>
        /\ ~halted
        /\ mem.val[1] = 6 /\ mem.val[2] = 5 /\ mem.val[3] = 4

C3_NestedWrites == [][C3_WriteStep]_vars /\ []C3_DocResult

\* C3 witness: the doctest of Pair has run to its end.
C3_Witness == shape = "docpair" /\ pc = 3 /\ ~halted

\* C4: slice element access.  A write through as_mut()[i] changes exactly
\* pointee i, one through index j of as_mut()[lo..hi] exactly pointee lo + j,
\* two chained modify calls add to their pointees one after the other; and
\* the doctest ends with [4, 5, 6, 7].
Bump(val, c, v) == [val EXCEPT ![c] = @ + v]

C4_SliceStep ==
    /\ (last'.op \in {"slice_write", "slice_range"} /\ last'.ok) =>
           /\ last'.i < Len(elems)
           /\ mem'.val = [mem.val EXCEPT ![elems[last'.i + 1]] = last'.v]
           /\ mem'.arr = mem.arr
    /\ (last'.op = "slice_chain" /\ last'.ok) =>
           /\ last'.i < Len(elems) /\ last'.sel < Len(elems)
           /\ mem'.val = Bump(Bump(mem.val, elems[last'.i + 1], last'.v),
                               elems[last'.sel + 1], last'.want)
           /\ mem'.arr = mem.arr

C4_DocResult ==
    (shape = "docslice" /\ (pc = 4 \/ halted)) =>
        /\ ~halted
        /\ mem.val = [c \in Cells |-> c + 3]

C4_SliceAccess == [][C4_SliceStep]_vars /\ []C4_DocResult

\* C4 witness: the doctest of Slice has run to its end.
C4_Witness == shape = "docslice" /\ pc = 4 /\ ~halted

\* C6: modify(f) invokes f exactly once, with the view as_mut() returns, and
\* returns f's result; its effect is that of as_mut() followed by f's write
\* (memD).  The doctest's continuation returning 42 makes modify return 42.
C6_ModifyIsAsMut ==
    /\ last.op = "modify" =>
           /\ last.calls = 1 /\ last.ok /\ last.ret = last.want
           /\ last.arg = AsMut(JoinedAt(mem, last.i))
    /\ last.op = "slice_modify" =>
           /\ last.calls = 1
           /\ last.ok => last.ret = last.want
           /\ last.arg = SliceAsMut(root)
    /\ last.op \in {"modify", "slice_modify"} => mem = memD
    /\ (shape = "docslice" /\ pc = 3) => last.ret = 42 /\ last.calls = 1

\* C6 witness: a continuation that wrote element 2 of a slice and returned 42.
C6_Witness ==
    /\ last.op = "slice_modify" /\ last.ok /\ last.sel = 2 /\ last.ret = 42
    /\ last.kind = "set" /\ mem.val[elems[3]] = MaxVal

\* C7: no Pair operation panics.  Every joined pair reference (the root, the
\* nested ones, one just made by new / new_mut or wrapped again) has length
\* 1, and pair_box[0] is in range for each of them.
C7_PairNeverPanics ==
    PairShape =>
        /\ ~halted /\ last.ok
        /\ root.len = 1
        /\ \A lvl \in 1..(Arity - 1) :
              /\ JoinedAt(mem, lvl).len = 1
              /\ PairBoxIndex(mem, JoinedAt(mem, lvl), 0).ok
        /\ last.op \in {"read", "read_mut", "rewrap"} => last.arg.len = 1

\* C7 witness: the innermost element of a 4-way nesting was written, which
\* takes three joined references in turn.
C7_Witness ==
    /\ shape = "pair" /\ Arity = 4 /\ last.op = "write" /\ last.i = 4
    /\ mem.val[elems[4]] = MaxVal

\* C8: slice length and bounds.  A joined slice of N references (N = 0
\* included) is made without failure; the view of as_ref / as_mut / modify
\* has exactly N elements in the original order; index i succeeds iff
\* i < N, and an index i >= N panics and changes no pointee and no slot.
C8_View ==
    /\ last.op \in {"slice_read", "slice_read_mut"} =>
           /\ last.ok /\ ~halted
           /\ last.arg.len = Len(elems)
           /\ last.ptr.len = Len(elems)
           /\ \A i \in 0..MaxN :
                 /\ ViewIndex(mem, last.ptr, i).ok <=> i < Len(elems)
                 /\ i < Len(elems) =>
                       ViewIndex(mem, last.ptr, i).ptr = Thin(elems[i + 1])
    /\ last.op = "slice_modify" => last.arg.len = Len(elems)
    /\ shape = "slice" => mem.arr = ArrOf(elems)

C8_IndexStep ==
    (last'.op \in {"slice_write", "slice_modify"}) =>
        /\ last'.ok <=> last'.i < Len(elems)
        /\ halted' <=> last'.i >= Len(elems)
        /\ ~last'.ok => mem' = mem

C8_SliceBounds == []C8_View /\ [][C8_IndexStep]_vars

\* C8 witness: an index equal to the length of a non-empty joined slice has
\* panicked after earlier writes.
C8_Witness ==
    /\ shape = "slice" /\ last.op = "slice_write" /\ halted
    /\ Len(elems) = 2 /\ last.i = 2 /\ mem.val[elems[1]] = 1

\* The mutable references to elements that are alive: <<g, i>> is one to the
\* cell in slot i of aggregate g, made by fst_mut, snd_mut or &mut *v.i.
MutRefs ==
    {r \in Aggs \X (1..2) :
        \/ r[2] = 1 /\ "fst_mut" \in kids[r[1]]
        \/ r[2] = 2 /\ "snd_mut" \in kids[r[1]]
        \/ r[2] \in derefs[r[1]]}

\* C5: swap soundness boundary.  With pab and pcd joined, c and d living in
\* the inner block only, nothing the joined pairs offer exchanges their
\* contents: after the inner block ab never holds the address of c or d.
C5_SwapBoundary ==
    scope = "after" => \A i \in 1..2 : held["ab"][i] \notin {"c", "d"}

\* C9: exclusivity.  Per joined entity at most one mutable interior view is
\* alive, no immutable one beside a mutable one, and no two live mutable
\* interior references designate the same element.
C9_Exclusivity ==
    /\ \A g \in Aggs :
          /\ Cardinality(kids[g] \cap MutKinds) <= 1
          /\ kids[g] \cap MutKinds # {} => kids[g] \cap SharedKinds = {}
    /\ \A r1 \in MutRefs, r2 \in MutRefs :
          r1 # r2 => held[r1[1]][r1[2]] # held[r2[1]][r2[2]]

\* C10: no dangling slot.  Once the borrow 'a of the unified view has ended,
\* every address an aggregate holds is of a cell that lives for 'x, the
\* lifetime of the aggregate's elements.
C10_NoDanglingSlot ==
    \A g \in Aggs :
        (Usable(g) /\ kids[g] \cap UnifiedKinds = {}) =>
            \A i \in 1..2 : LivesFor(held[g][i], g)

====
